---- MODULE Spec2Model ----
(***************************************************************************)
(* Cache replacement policies (Random, LRU, LFU) of the QtMips simulator    *)
(* and the simulator's exception taxonomy, as a state machine.              *)
(*                                                                          *)
(*   src/src/machine/memory/cache/cache_policy.cpp                          *)
(*   src/src/machine/simulator_exception.h                                  *)
(*                                                                          *)
(* Way and row indices are 0-based as in the C++ code; TLA+ sequences are   *)
(* 1-based, so element i of a std::vector v is v[i + 1] here.               *)
(***************************************************************************)
EXTENDS Integers, Sequences, FiniteSets, TLC

\* ------------------------------------------------------------------ bounds
\* Largest associativity and set count of a cache configuration, and the
\* largest number of blocks (associativity * set_count) of a configuration.
MaxAssoc == 3
MaxSets == 2
MaxCells == 4
\* Width in bits of an LFU counter (uint32_t in the code, scaled down so
\* that the wrap-around of `stat_item += 1` is reachable).
CounterBits == 2
\* Number of std::rand() draws one Random policy instance makes.
MaxDraws == 3

\* The policy instances of one process: 1 = program cache, 2 = data cache.
Insts == {1, 2}

\* ---------------------------------------------------------- configuration
\* CacheConfig as read by the factory: enabled(), replacement_policy(),
\* associativity(), set_count().  Enabled configurations are pre-validated
\* (associativity > 0, set_count > 0).
ReplacementPolicies == {"RP_RAND", "RP_LRU", "RP_LFU"}

Shapes ==
    {<<a, s>> \in (1..MaxAssoc) \X (1..MaxSets) : a * s <= MaxCells}

Configs ==
    {[enabled |-> e, replacement_policy |-> rp,
      associativity |-> sh[1], set_count |-> sh[2]] :
        e \in BOOLEAN, rp \in ReplacementPolicies, sh \in Shapes}

\* The Random configurations of a cache of one row (the Random policy reads
\* neither set_count nor row).
RandConfigs ==
    {c \in Configs :
        c.enabled /\ c.replacement_policy = "RP_RAND" /\ c.set_count = 1}

\* The configurations of a cache of one row.
FaultConfigs ==
    {c \in Configs : c.set_count = 1 /\ c.associativity < MaxAssoc}

NoConfig ==
    [enabled |-> FALSE, replacement_policy |-> "RP_RAND",
     associativity |-> 0, set_count |-> 0]

\* --------------------------------------------------------- fault taxonomy
\* SIMULATOR_EXCEPTIONS: EXCEPTION(NAME, PARENT) declares
\* class SimulatorException##NAME : public SimulatorException##PARENT.
RuntimeKinds ==
    {"UnsupportedInstruction", "UnsupportedAluOperation", "Overflow",
     "UnalignedJump", "UnknownMemoryControl", "OutOfMemoryAccess",
     "SyscallUnknown"}

Kinds ==
    {"Input", "Runtime", "Sanity"} \cup RuntimeKinds

\* The exception types a handler can name: the simulator's kinds, their base
\* class, and the standard classes the policies meet.
ExceptionTypes ==
    Kinds \cup {"SimulatorException", "std::exception", "std::logic_error",
                "std::out_of_range"}

ParentWithSanityUnderRuntime(k) ==
    CASE k \in RuntimeKinds \cup {"Sanity"} -> "Runtime"
      [] k \in {"Input", "Runtime"} -> "SimulatorException"
      [] k = "SimulatorException" -> "std::exception"
      [] k = "std::out_of_range" -> "std::logic_error"
      [] k = "std::logic_error" -> "std::exception"
      [] OTHER -> "none"

\* Direct base class of an exception type ("none" for std::exception).
Parent(k) ==
    CASE k \in {"Input", "Runtime", "Sanity"} -> "SimulatorException"
      [] k \in RuntimeKinds -> "Runtime"
      [] k = "SimulatorException" -> "std::exception"
      [] k = "std::out_of_range" -> "std::logic_error"
      [] k = "std::logic_error" -> "std::exception"
      [] OTHER -> "none"

RECURSIVE IsA(_, _)
\* An exception of type k is caught by a handler for type h.
IsA(k, h) ==
    IF k = h THEN TRUE
    ELSE IF Parent(k) = "none" THEN FALSE
    ELSE IsA(Parent(k), h)

\* The kind SANITY_EXCEPTION(MSG) constructs.
SANITY_EXCEPTION == "Sanity"

\* ------------------------------------------------------------- generator
\* std::rand()/std::srand(): a deterministic generator with one
\* process-wide state.  A small linear congruential generator stands for
\* the library's; the result is taken from the high bits of the state.
RAND_A == 5
RAND_C == 3
RAND_M == 16
RAND_DIV == 2

\* The state std::srand(1) sets; also the state before any srand call.
SRAND_SEED == 1

rand_next(state) ==
    (RAND_A * state + RAND_C) % RAND_M

rand_value(state) ==
    state \div RAND_DIV

CachePolicyRAND_keep_seed(old_state) ==
    old_state

CachePolicyRAND_srand_zero(old_state) ==
    0

\* Generator state after the constructor of CachePolicyRAND.
CachePolicyRAND_srand(old_state) ==
    SRAND_SEED

RAND_draw_on_update_stats(state, way, row, is_valid) ==
    rand_next(state)

\* Generator state after CachePolicyRAND::update_stats, which is a NOP.
RAND_state_after_update_stats(state, way, row, is_valid) ==
    state

\* The way CachePolicyRAND::select_way_to_evict(row) returns when std::rand
\* has left the generator in `state`.
RAND_select_way(state, associativity, row) ==
    rand_value(state) % associativity

\* -------------------------------------------------------------------- LRU
LRU_init_descending(associativity, set_count) ==
    [r \in 1..set_count |-> [k \in 1..associativity |-> associativity - k]]

\* stats after CachePolicyLRU::CachePolicyLRU: every row is 0, 1, ..
LRU_init_stats(associativity, set_count) ==
    [r \in 1..set_count |-> [k \in 1..associativity |-> k - 1]]

RECURSIVE LRU_pass(_, _, _, _, _)
\* One do-while loop of update_stats from index i in direction step:
\* swap(row_stats.at(i), next_way) until next_way = way.  row_stats.at(i)
\* throws std::out_of_range when i leaves the row; the swaps done before
\* that stay in the row.
LRU_pass(row_stats, next_way, way, i, step) ==
    IF i < 0 \/ i >= Len(row_stats)
    THEN [row_stats |-> row_stats, thrown |-> TRUE]
    ELSE LET swapped == [row_stats EXCEPT ![i + 1] = next_way]
             taken == row_stats[i + 1]
         IN  IF taken # way
             THEN LRU_pass(swapped, taken, way, i + step, step)
             ELSE [row_stats |-> swapped, thrown |-> FALSE]

LRU_update_stats_inverted(st, associativity, way, row, is_valid) ==
    IF row >= Len(st)
    THEN [stats |-> st, fault |-> SANITY_EXCEPTION]
    ELSE LET res == IF ~is_valid
                    THEN LRU_pass(st[row + 1], way, way, associativity - 1, -1)
                    ELSE LRU_pass(st[row + 1], way, way, 0, 1)
         IN  [stats |-> [st EXCEPT ![row + 1] = res.row_stats],
              fault |-> IF res.thrown THEN SANITY_EXCEPTION ELSE "none"]

LRU_update_stats_exchange(st, associativity, way, row, is_valid) ==
    IF row >= Len(st) \/ way >= associativity
    THEN [stats |-> st, fault |-> SANITY_EXCEPTION]
    ELSE LET row_stats == st[row + 1]
             k == CHOOSE j \in 1..Len(row_stats) : row_stats[j] = way
             e == IF is_valid THEN Len(row_stats) ELSE 1
         IN  [stats |-> [st EXCEPT ![row + 1] =
                            [row_stats EXCEPT ![k] = row_stats[e],
                                              ![e] = way]],
              fault |-> "none"]

LRU_update_stats_ignore_invalid(st, associativity, way, row, is_valid) ==
    IF row >= Len(st)
    THEN [stats |-> st, fault |-> SANITY_EXCEPTION]
    ELSE LET res == IF is_valid
                    THEN LRU_pass(st[row + 1], way, way, associativity - 1, -1)
                    ELSE [row_stats |-> st[row + 1], thrown |-> FALSE]
         IN  [stats |-> [st EXCEPT ![row + 1] = res.row_stats],
              fault |-> IF res.thrown THEN SANITY_EXCEPTION ELSE "none"]

\* CachePolicyLRU::update_stats: the new stats and the fault thrown.
LRU_update_stats(st, associativity, way, row, is_valid) ==
    IF row >= Len(st)
    THEN [stats |-> st, fault |-> SANITY_EXCEPTION]
    ELSE LET res == IF is_valid
                    THEN LRU_pass(st[row + 1], way, way, associativity - 1, -1)
                    ELSE LRU_pass(st[row + 1], way, way, 0, 1)
         IN  [stats |-> [st EXCEPT ![row + 1] = res.row_stats],
              fault |-> IF res.thrown THEN SANITY_EXCEPTION ELSE "none"]

\* CachePolicyLRU::select_way_to_evict: stats.at(row).at(0), no try block.
LRU_select_way_to_evict(st, row) ==
    IF row >= Len(st) \/ Len(st[row + 1]) = 0
    THEN [way |-> -1, fault |-> "std::out_of_range"]
    ELSE [way |-> st[row + 1][1], fault |-> "none"]

LRU_touch_on_select(st, associativity, row) ==
    IF row >= Len(st) \/ Len(st[row + 1]) = 0
    THEN st
    ELSE LRU_update_stats(st, associativity, st[row + 1][1], row, TRUE).stats

\* stats after CachePolicyLRU::select_way_to_evict, a const method.
LRU_stats_after_select(st, associativity, row) ==
    st

\* -------------------------------------------------------------------- LFU
\* stats after CachePolicyLFU::CachePolicyLFU: every counter is 0.
LFU_init_stats(associativity, set_count) ==
    [r \in 1..set_count |-> [k \in 1..associativity |-> 0]]

CounterModulus == 2 ^ CounterBits

LFU_update_stats_every_row(st, way, row, is_valid) ==
    IF row >= Len(st) \/ way >= Len(st[row + 1])
    THEN [stats |-> st, fault |-> "std::out_of_range"]
    ELSE [stats |-> [r \in 1..Len(st) |->
                        [st[r] EXCEPT ![way + 1] =
                            IF is_valid THEN (@ + 1) % CounterModulus
                                        ELSE 0]],
          fault |-> "none"]

LFU_update_stats_keep_on_invalid(st, way, row, is_valid) ==
    IF row >= Len(st) \/ way >= Len(st[row + 1])
    THEN [stats |-> st, fault |-> "std::out_of_range"]
    ELSE LET stat_item == st[row + 1][way + 1]
             new_item == IF is_valid
                         THEN (stat_item + 1) % CounterModulus
                         ELSE stat_item
         IN  [stats |-> [st EXCEPT ![row + 1][way + 1] = new_item],
              fault |-> "none"]

\* CachePolicyLFU::update_stats: stats.at(row).at(way) outside a try block,
\* then `stat_item += 1` (unsigned, wraps) or `stat_item = 0`.
LFU_update_stats(st, way, row, is_valid) ==
    IF row >= Len(st) \/ way >= Len(st[row + 1])
    THEN [stats |-> st, fault |-> "std::out_of_range"]
    ELSE LET stat_item == st[row + 1][way + 1]
             new_item == IF is_valid
                         THEN (stat_item + 1) % CounterModulus
                         ELSE 0
         IN  [stats |-> [st EXCEPT ![row + 1][way + 1] = new_item],
              fault |-> "none"]

RECURSIVE LFU_scan_no_break(_, _, _, _)
LFU_scan_no_break(row_stats, i, lowest, index) ==
    IF i >= Len(row_stats) THEN index
    ELSE IF row_stats[i + 1] = 0
         THEN LFU_scan_no_break(row_stats, i + 1, lowest, i)
    ELSE IF lowest > row_stats[i + 1]
         THEN LFU_scan_no_break(row_stats, i + 1, row_stats[i + 1], i)
    ELSE LFU_scan_no_break(row_stats, i + 1, lowest, index)

RECURSIVE LFU_scan_last_lowest(_, _, _, _)
LFU_scan_last_lowest(row_stats, i, lowest, index) ==
    IF i >= Len(row_stats) THEN index
    ELSE IF row_stats[i + 1] = 0 THEN i
    ELSE IF lowest >= row_stats[i + 1]
         THEN LFU_scan_last_lowest(row_stats, i + 1, row_stats[i + 1], i)
    ELSE LFU_scan_last_lowest(row_stats, i + 1, lowest, index)

RECURSIVE LFU_scan(_, _, _, _)
\* The for loop of CachePolicyLFU::select_way_to_evict from index i on.
LFU_scan(row_stats, i, lowest, index) ==
    IF i >= Len(row_stats) THEN index
    ELSE IF row_stats[i + 1] = 0 THEN i
    ELSE IF lowest > row_stats[i + 1]
         THEN LFU_scan(row_stats, i + 1, row_stats[i + 1], i)
    ELSE LFU_scan(row_stats, i + 1, lowest, index)

\* CachePolicyLFU::select_way_to_evict: std::out_of_range becomes Sanity.
LFU_select_way_to_evict(st, row) ==
    IF row >= Len(st) \/ Len(st[row + 1]) = 0
    THEN [way |-> -1, fault |-> SANITY_EXCEPTION]
    ELSE [way |-> LFU_scan(st[row + 1], 0, st[row + 1][1], 0),
          fault |-> "none"]

\* ---------------------------------------------------------------- factory
PolicyForSwapped(replacement_policy) ==
    CASE replacement_policy = "RP_RAND" -> "RAND"
      [] replacement_policy = "RP_LRU" -> "LFU"
      [] replacement_policy = "RP_LFU" -> "LRU"

\* The class get_policy_instance instantiates for a replacement_policy().
PolicyFor(replacement_policy) ==
    CASE replacement_policy = "RP_RAND" -> "RAND"
      [] replacement_policy = "RP_LRU" -> "LRU"
      [] replacement_policy = "RP_LFU" -> "LFU"

\* ------------------------------------------------------------------ state
VARIABLES
    config,         \* per cache: the CacheConfig its policy was built from
    policy,         \* per instance: "NONE" (no instance), "RAND", "LRU", "LFU"
    associativity,  \* per instance: the member `associativity` (RAND, LRU)
    stats,          \* per instance: the member `stats`, a vector of rows
    rand_state,     \* the state of the process-wide std::rand generator
    drawn,          \* per instance: ways returned by RAND select, in order
    undisturbed,    \* per instance: every draw so far was made on a
                    \* generator that only this instance used since it
                    \* was constructed
    gen_owner,      \* the instance whose constructor seeded the generator
                    \* last and which alone has drawn since; 0 if none
    touched,        \* per instance: update_stats was called on it
    events,         \* per LRU instance and row: the latest update_stats
                    \* call of each way, oldest first; kept as long as
                    \* every call was in range, empty afterwards
    hit_since_reset,\* per LFU instance: the <<row, way>> pairs that got an
                    \* update_stats(.., true) since they were constructed
                    \* or last got an update_stats(.., false)
    in_range_only,  \* per LRU/LFU instance: every call so far had
                    \* row < set_count and way < associativity
    last,           \* the last call: operation, arguments, result, fault
    handler         \* the handler type that caught last.fault, or "none"

vars ==
    <<config, policy, associativity, stats, rand_state, drawn, undisturbed,
      gen_owner, touched, events, hit_since_reset, in_range_only, last,
      handler>>

Call(op, inst, way, row, is_valid, result, fault) ==
    [op |-> op, inst |-> inst, way |-> way, row |-> row,
     is_valid |-> is_valid, result |-> result, fault |-> fault]

\* Number of rows and of ways of the cache the instance serves.
set_count_of(i) ==
    config[i].set_count

ways_of(i) ==
    config[i].associativity

\* Arguments a caller passes: every index in range and one beyond it.
WayArgs(i) ==
    0..ways_of(i)

RowArgs(i) ==
    0..set_count_of(i)

InRange(i, way, row) ==
    row < set_count_of(i) /\ way < ways_of(i)

\* The log of the latest call per way, after update_stats(way, .., is_valid).
LogEvent(log, way, is_valid) ==
    Append(SelectSeq(log, LAMBDA e : e.way # way),
           [way |-> way, is_valid |-> is_valid])

Init ==
    /\ config = [i \in Insts |-> NoConfig]
    /\ policy = [i \in Insts |-> "NONE"]
    /\ associativity = [i \in Insts |-> 0]
    /\ stats = [i \in Insts |-> <<>>]
    /\ rand_state = SRAND_SEED
    /\ drawn = [i \in Insts |-> <<>>]
    /\ undisturbed = [i \in Insts |-> TRUE]
    /\ gen_owner = 0
    /\ touched = [i \in Insts |-> FALSE]
    /\ events = [i \in Insts |-> <<>>]
    /\ hit_since_reset = [i \in Insts |-> {}]
    /\ in_range_only = [i \in Insts |-> TRUE]
    /\ last = Call("none", 0, 0, 0, FALSE, -1, "none")
    /\ handler = "none"

\* ---------------------------------------------------------------- actions
\* CachePolicy::get_policy_instance(config) for the cache of instance i.
\* Each cache's policy is built once, when the machine is set up.
get_policy_instance(i, cfg) ==
    /\ policy[i] = "NONE"
    /\ config' = [config EXCEPT ![i] = cfg]
    /\ LET p == IF cfg.enabled THEN PolicyFor(cfg.replacement_policy)
                ELSE "NONE"
       IN  /\ policy' = [policy EXCEPT ![i] = p]
           /\ associativity' =
                [associativity EXCEPT
                    ![i] = IF p \in {"RAND", "LRU"} THEN cfg.associativity
                           ELSE 0]
           /\ stats' =
                [stats EXCEPT
                    ![i] = CASE p = "LRU" ->
                                  LRU_init_stats(cfg.associativity, cfg.set_count)
                             [] p = "LFU" ->
                                  LFU_init_stats(cfg.associativity, cfg.set_count)
                             [] OTHER -> <<>>]
           /\ rand_state' = IF p = "RAND" THEN CachePolicyRAND_srand(rand_state)
                            ELSE rand_state
           /\ gen_owner' = IF p = "RAND" THEN i ELSE gen_owner
    /\ drawn' = [drawn EXCEPT ![i] = <<>>]
    /\ undisturbed' = [undisturbed EXCEPT ![i] = TRUE]
    /\ touched' = [touched EXCEPT ![i] = FALSE]
    /\ events' =
         [events EXCEPT
            ![i] = IF cfg.enabled /\ PolicyFor(cfg.replacement_policy) = "LRU"
                   THEN [r \in 1..cfg.set_count |-> <<>>]
                   ELSE <<>>]
    /\ hit_since_reset' = [hit_since_reset EXCEPT ![i] = {}]
    /\ in_range_only' = [in_range_only EXCEPT ![i] = TRUE]
    /\ last' = Call("get_policy_instance", i, 0, 0, FALSE, -1, "none")
    /\ handler' = "none"

CachePolicyLRU_update_stats(i, way, row, is_valid) ==
    /\ policy[i] = "LRU"
    /\ LET res == LRU_update_stats(stats[i], associativity[i], way, row, is_valid)
       IN  /\ stats' = [stats EXCEPT ![i] = res.stats]
           /\ last' = Call("update_stats", i, way, row, is_valid, -1,
                           res.fault)
    /\ touched' = [touched EXCEPT ![i] = TRUE]
    /\ in_range_only' =
         [in_range_only EXCEPT ![i] = @ /\ InRange(i, way, row)]
    /\ events' =
         [events EXCEPT
            ![i] = IF in_range_only[i] /\ InRange(i, way, row)
                   THEN [@ EXCEPT ![row + 1] = LogEvent(@, way, is_valid)]
                   ELSE <<>>]
    /\ handler' = "none"
    /\ UNCHANGED <<hit_since_reset, config, policy, associativity,
                   rand_state, drawn, undisturbed, gen_owner>>

CachePolicyLRU_select_way_to_evict(i, row) ==
    /\ policy[i] = "LRU"
    /\ LET res == LRU_select_way_to_evict(stats[i], row)
       IN  last' = Call("select_way_to_evict", i, 0, row, FALSE, res.way,
                        res.fault)
    /\ stats' = [stats EXCEPT
                    ![i] = LRU_stats_after_select(@, associativity[i], row)]
    /\ in_range_only' =
         [in_range_only EXCEPT ![i] = @ /\ row < set_count_of(i)]
    /\ events' =
         [events EXCEPT
            ![i] = IF in_range_only[i] /\ row < set_count_of(i) THEN @
                   ELSE <<>>]
    /\ handler' = "none"
    /\ UNCHANGED <<hit_since_reset, config, policy, associativity,
                   rand_state, drawn, undisturbed, gen_owner, touched>>

CachePolicyLFU_update_stats(i, way, row, is_valid) ==
    /\ policy[i] = "LFU"
    /\ LET res == LFU_update_stats(stats[i], way, row, is_valid)
       IN  /\ stats' = [stats EXCEPT ![i] = res.stats]
           /\ last' = Call("update_stats", i, way, row, is_valid, -1,
                           res.fault)
    /\ touched' = [touched EXCEPT ![i] = TRUE]
    /\ in_range_only' =
         [in_range_only EXCEPT ![i] = @ /\ InRange(i, way, row)]
    /\ hit_since_reset' =
         [hit_since_reset EXCEPT
            ![i] = IF ~InRange(i, way, row) THEN @
                   ELSE IF is_valid THEN @ \cup {<<row, way>>}
                   ELSE @ \ {<<row, way>>}]
    /\ handler' = "none"
    /\ UNCHANGED <<events, config, policy, associativity, rand_state, drawn,
                   undisturbed, gen_owner>>

CachePolicyLFU_select_way_to_evict(i, row) ==
    /\ policy[i] = "LFU"
    /\ LET res == LFU_select_way_to_evict(stats[i], row)
       IN  last' = Call("select_way_to_evict", i, 0, row, FALSE, res.way,
                        res.fault)
    /\ in_range_only' =
         [in_range_only EXCEPT ![i] = @ /\ row < set_count_of(i)]
    /\ handler' = "none"
    /\ UNCHANGED <<events, hit_since_reset,
                   config, policy, associativity, stats, rand_state, drawn,
                   undisturbed, gen_owner, touched>>

\* CachePolicyRAND::update_stats: NOP.
CachePolicyRAND_update_stats(i, way, row, is_valid) ==
    /\ policy[i] = "RAND"
    /\ rand_state' =
         RAND_state_after_update_stats(rand_state, way, row, is_valid)
    /\ last' = Call("update_stats", i, way, row, is_valid, -1, "none")
    /\ touched' = [touched EXCEPT ![i] = TRUE]
    /\ handler' = "none"
    /\ UNCHANGED <<events, hit_since_reset, config, policy, associativity,
                   stats, drawn, undisturbed, gen_owner, in_range_only>>

\* CachePolicyRAND::select_way_to_evict: std::rand() % associativity.
CachePolicyRAND_select_way_to_evict(i, row) ==
    /\ policy[i] = "RAND"
    /\ Len(drawn[i]) < MaxDraws
    /\ rand_state' = rand_next(rand_state)
    /\ LET way == RAND_select_way(rand_state', associativity[i], row)
       IN  /\ drawn' = [drawn EXCEPT ![i] = Append(@, way)]
           /\ last' = Call("select_way_to_evict", i, 0, row, FALSE, way,
                           "none")
    /\ undisturbed' = [undisturbed EXCEPT ![i] = @ /\ gen_owner = i]
    /\ gen_owner' = IF gen_owner = i THEN i ELSE 0
    /\ handler' = "none"
    /\ UNCHANGED <<events, hit_since_reset,
                   config, policy, associativity, stats, touched,
                   in_range_only>>

\* throw SIMULATOR_EXCEPTION(kind, ..) somewhere else in the machine.
Raise(kind) ==
    /\ last' = Call("raise", 0, 0, 0, FALSE, -1, kind)
    /\ handler' = "none"
    /\ UNCHANGED <<events, hit_since_reset,
                   config, policy, associativity, stats, rand_state, drawn,
                   undisturbed, gen_owner, touched, in_range_only>>

\* The fault in flight reaches a `catch (h &)` clause that matches it.
Catch(h) ==
    /\ last.fault # "none"
    /\ handler = "none"
    /\ IsA(last.fault, h)
    /\ handler' = h
    /\ UNCHANGED <<events, hit_since_reset,
                   config, policy, associativity, stats, rand_state, drawn,
                   undisturbed, gen_owner, touched, in_range_only, last>>

\* One cache, any policy.
Next ==
    \/ \E cfg \in Configs : get_policy_instance(1, cfg)
    \/ \E way \in WayArgs(1), row \in RowArgs(1), is_valid \in BOOLEAN :
          CachePolicyLRU_update_stats(1, way, row, is_valid)
    \/ \E row \in RowArgs(1) : CachePolicyLRU_select_way_to_evict(1, row)
    \/ \E way \in WayArgs(1), row \in RowArgs(1), is_valid \in BOOLEAN :
          CachePolicyLFU_update_stats(1, way, row, is_valid)
    \/ \E row \in RowArgs(1) : CachePolicyLFU_select_way_to_evict(1, row)
    \/ \E way \in WayArgs(1), row \in RowArgs(1), is_valid \in BOOLEAN :
          CachePolicyRAND_update_stats(1, way, row, is_valid)
    \/ \E row \in RowArgs(1) : CachePolicyRAND_select_way_to_evict(1, row)

Spec ==
    Init /\ [][Next]_vars

\* One small cache, any policy, the faults the rest of the machine raises,
\* and the handlers that catch a fault in flight.
NextFault ==
    \/ \E cfg \in FaultConfigs : get_policy_instance(1, cfg)
    \/ \E way \in WayArgs(1), row \in RowArgs(1), is_valid \in BOOLEAN :
          CachePolicyLRU_update_stats(1, way, row, is_valid)
    \/ \E row \in RowArgs(1) : CachePolicyLRU_select_way_to_evict(1, row)
    \/ \E way \in WayArgs(1), row \in RowArgs(1), is_valid \in BOOLEAN :
          CachePolicyLFU_update_stats(1, way, row, is_valid)
    \/ \E row \in RowArgs(1) : CachePolicyLFU_select_way_to_evict(1, row)
    \/ \E way \in WayArgs(1), row \in RowArgs(1), is_valid \in BOOLEAN :
          CachePolicyRAND_update_stats(1, way, row, is_valid)
    \/ \E row \in RowArgs(1) : CachePolicyRAND_select_way_to_evict(1, row)
    \/ \E kind \in Kinds : Raise(kind)
    \/ \E h \in ExceptionTypes : Catch(h)

SpecFault ==
    Init /\ [][NextFault]_vars

\* Two caches of one process, both with the Random policy.
NextRand ==
    \/ \E i \in Insts, cfg \in RandConfigs : get_policy_instance(i, cfg)
    \/ \E i \in Insts : \E way \in WayArgs(i), row \in RowArgs(i),
                           is_valid \in BOOLEAN :
          CachePolicyRAND_update_stats(i, way, row, is_valid)
    \/ \E i \in Insts : \E row \in RowArgs(i) :
          CachePolicyRAND_select_way_to_evict(i, row)

SpecRand ==
    Init /\ [][NextRand]_vars

\* ----------------------------------------------------------- properties
PolicyOps ==
    {"update_stats", "select_way_to_evict"}

\* row holds every way index of [0, n) exactly once.
IsPermutation(row, n) ==
    /\ Len(row) = n
    /\ \A w \in 0..(n - 1) : Cardinality({k \in 1..n : row[k] = w}) = 1

\* Row r (0-based) of instance i.
RowOf(i, r) ==
    stats[i][r + 1]

\* The lowest way index of a row whose counter is 0 (the row has one).
LowestZero(row) ==
    CHOOSE w \in 0..(Len(row) - 1) :
        /\ row[w + 1] = 0
        /\ \A v \in 0..(w - 1) : row[v + 1] # 0

\* C1: under LRU every row's order is a permutation of [0, associativity)
\* in every state reachable by update_stats and select_way_to_evict calls,
\* whatever their arguments and whether or not a call raised a fault.
C1_LRUOrderIsPermutation ==
    \A i \in Insts :
        policy[i] = "LRU" =>
            \A r \in 0..(set_count_of(i) - 1) :
                IsPermutation(RowOf(i, r), ways_of(i))

\* C2: under each policy, update_stats with row >= set_count or
\* way >= associativity and select_way_to_evict with row >= set_count raise
\* a Sanity fault and nothing else; the call is never silently accepted.
C2_OutOfRangeRaisesSanity ==
    /\ (/\ last.op = "update_stats"
        /\ ~InRange(last.inst, last.way, last.row))
            => last.fault = "Sanity"
    /\ (/\ last.op = "select_way_to_evict"
        /\ last.row >= set_count_of(last.inst))
            => last.fault = "Sanity"

\* C3: under LRU, from a state reached by in-range calls, the way selected
\* for eviction right after update_stats(w, r, true) is not w when
\* associativity > 1, and is 0 when associativity = 1.
C3_LRUHitIsNotVictim ==
    (/\ last.op = "update_stats"
     /\ policy[last.inst] = "LRU"
     /\ in_range_only[last.inst]
     /\ last.is_valid)
        => LET sel == LRU_select_way_to_evict(stats[last.inst], last.row)
           IN  /\ last.fault = "none"
               /\ sel.fault = "none"
               /\ ways_of(last.inst) > 1 => sel.way # last.way
               /\ ways_of(last.inst) = 1 => sel.way = 0

C3_Witness ==
    /\ last.op = "update_stats"
    /\ policy[last.inst] = "LRU"
    /\ in_range_only[last.inst]
    /\ last.is_valid
    /\ ways_of(last.inst) = 3
    /\ last.way = 1
    /\ RowOf(last.inst, last.row) = <<2, 0, 1>>

\* C4: under LFU, in every reachable state, a row with at least one counter
\* equal to 0 has as victim the lowest-index way whose counter is 0,
\* whatever the nonzero counters of the other ways are.
C4_LFUZeroCounterFirst ==
    \A i \in Insts :
        policy[i] = "LFU" =>
            \A r \in 0..(set_count_of(i) - 1) :
                (\E k \in 1..Len(RowOf(i, r)) : RowOf(i, r)[k] = 0) =>
                    /\ LFU_select_way_to_evict(stats[i], r) =
                         [way |-> LowestZero(RowOf(i, r)), fault |-> "none"]
                    /\ (/\ last.op = "select_way_to_evict"
                        /\ last.inst = i
                        /\ last.row = r)
                            => /\ last.fault = "none"
                               /\ last.result = LowestZero(RowOf(i, r))

C4_Witness ==
    /\ last.op = "select_way_to_evict"
    /\ policy[last.inst] = "LFU"
    /\ last.row < set_count_of(last.inst)
    /\ ways_of(last.inst) = 3
    /\ RowOf(last.inst, last.row)[1] > RowOf(last.inst, last.row)[3]
    /\ RowOf(last.inst, last.row)[2] = 0
    /\ RowOf(last.inst, last.row)[3] > 0
    /\ last.result = 1

\* C5: under LFU, an in-range update_stats(w, r, false) sets the counter of
\* way w of row r to 0, and the victim of r right afterwards is w unless a
\* way of lower index has counter 0 too, and then the lowest such way.
C5_LFUInvalidateResets ==
    (/\ last.op = "update_stats"
     /\ policy[last.inst] = "LFU"
     /\ InRange(last.inst, last.way, last.row)
     /\ ~last.is_valid)
        => LET row == RowOf(last.inst, last.row)
               sel == LFU_select_way_to_evict(stats[last.inst], last.row)
               lower == {v \in 0..(last.way - 1) : row[v + 1] = 0}
           IN  /\ last.fault = "none"
               /\ row[last.way + 1] = 0
               /\ sel.fault = "none"
               /\ lower = {} => sel.way = last.way
               /\ lower # {} => /\ sel.way \in lower
                                /\ \A v \in lower : sel.way <= v

C5_Witness ==
    /\ last.op = "update_stats"
    /\ policy[last.inst] = "LFU"
    /\ InRange(last.inst, last.way, last.row)
    /\ ~last.is_valid
    /\ last.way = 2
    /\ RowOf(last.inst, last.row)[1] = 2
    /\ RowOf(last.inst, last.row)[2] = 1
    /\ RowOf(last.inst, last.row)[3] = 0

\* Instance i is a Random policy that was only asked for victims, on a
\* generator nobody else used since i was constructed.
FreshReplay(i) ==
    /\ policy[i] = "RAND"
    /\ undisturbed[i]
    /\ ~touched[i]

C7_FreshVictimIsZero ==
    \A i \in Insts :
        (policy[i] \in {"LRU", "LFU"} /\ ~touched[i]) =>
            /\ \A r \in 0..(set_count_of(i) - 1) :
                  LET sel == IF policy[i] = "LRU"
                             THEN LRU_select_way_to_evict(stats[i], r)
                             ELSE LFU_select_way_to_evict(stats[i], r)
                  IN  sel = [way |-> 0, fault |-> "none"]
            /\ (/\ last.op = "select_way_to_evict"
                /\ last.inst = i
                /\ last.row < set_count_of(i))
                    => (last.fault = "none" /\ last.result = 0)

C7_Witness ==
    /\ policy[1] = "LRU"
    /\ ~touched[1]
    /\ ways_of(1) = 2
    /\ last.op = "select_way_to_evict"
    /\ last.inst = 1
    /\ last.row = 1
    /\ last.result = 0

\* The step is a select_way_to_evict call.
SelectStep ==
    /\ last'.op = "select_way_to_evict"
    /\ handler' = "none"

\* C8 as stated: select_way_to_evict is a pure query under every policy; a
\* call changes no state that can influence a later select_way_to_evict or
\* update_stats call.
C8_SelectIsPure ==
    [][SelectStep =>
         UNCHANGED <<policy, associativity, stats, rand_state>>]_vars

\* C8 amended: select_way_to_evict changes no state of the policy instance
\* under any policy; under LRU and LFU it changes nothing a later call
\* reads, so a second select_way_to_evict(r) right after the first returns
\* the same way; under Random a call advances the process-wide generator.
C8_SelectFrame ==
    [][SelectStep =>
         /\ UNCHANGED <<config, policy, associativity, stats>>
         /\ policy[last'.inst] \in {"LRU", "LFU"} =>
              /\ UNCHANGED rand_state
              /\ (/\ last.op = "select_way_to_evict"
                  /\ last.inst = last'.inst
                  /\ last.row = last'.row)
                    => (last'.result = last.result /\ last'.fault = last.fault)
         /\ policy[last'.inst] = "RAND" =>
              rand_state' = rand_next(rand_state)]_vars

C8_Witness ==
    /\ last.op = "select_way_to_evict"
    /\ policy[last.inst] = "RAND"
    /\ Len(drawn[last.inst]) = 2
    /\ drawn[last.inst][1] # drawn[last.inst][2]
    /\ rand_state # SRAND_SEED

\* What the instance itself holds of the shape it was built with.
built_associativity(i) ==
    IF policy[i] = "LFU"
    THEN (IF Len(stats[i]) = 0 THEN 0 ELSE Len(stats[i][1]))
    ELSE associativity[i]

built_set_count(i) ==
    Len(stats[i])

FactoryVariant(i) ==
    /\ policy[i] = "NONE" <=> ~config[i].enabled
    /\ config[i].enabled =>
         /\ config[i].replacement_policy = "RP_RAND" => policy[i] = "RAND"
         /\ config[i].replacement_policy = "RP_LRU" => policy[i] = "LRU"
         /\ config[i].replacement_policy = "RP_LFU" => policy[i] = "LFU"
         /\ built_associativity(i) = config[i].associativity

\* C9 as stated: get_policy_instance returns no instance iff enabled is
\* false, and else one instance of the variant replacement_policy names,
\* built with the configuration's associativity and set_count.
C9_FactoryBuildsConfigured ==
    last.op = "get_policy_instance" =>
        /\ FactoryVariant(last.inst)
        /\ config[last.inst].enabled =>
             built_set_count(last.inst) = config[last.inst].set_count

\* C9 amended: as stated, except that only LRU and LFU are built with the
\* configuration's set_count; Random is built with the associativity alone
\* and keeps no per-row state.
C9_FactoryBuildsVariant ==
    last.op = "get_policy_instance" =>
        /\ FactoryVariant(last.inst)
        /\ policy[last.inst] \in {"LRU", "LFU"} =>
             /\ built_set_count(last.inst) = config[last.inst].set_count
             /\ \A r \in 1..built_set_count(last.inst) :
                   Len(stats[last.inst][r]) = config[last.inst].associativity
        /\ policy[last.inst] = "RAND" => built_set_count(last.inst) = 0

C9_Witness ==
    /\ last.op = "get_policy_instance"
    /\ config[last.inst].enabled
    /\ config[last.inst].replacement_policy = "RP_LFU"
    /\ config[last.inst].associativity = 2
    /\ config[last.inst].set_count = 2
    /\ policy[last.inst] = "LFU"

\* C10: Sanity, Runtime and Input are sibling roots under the base fault;
\* the seven execution kinds are leaves directly under Runtime; a handler
\* for Runtime catches each of the seven and never Sanity or Input; the
\* fault of a policy call is never caught as Runtime.
C10_TaxonomyRoots ==
    /\ \A k \in {"Sanity", "Runtime", "Input"} :
          Parent(k) = "SimulatorException"
    /\ \A k \in Kinds \ {"Sanity"} : ~IsA("Sanity", k)
    /\ Cardinality(RuntimeKinds) = 7
    /\ \A k \in RuntimeKinds :
          /\ Parent(k) = "Runtime"
          /\ IsA(k, "Runtime")
          /\ \A c \in Kinds : Parent(c) # k
    /\ ~IsA("Sanity", "Runtime")
    /\ ~IsA("Input", "Runtime")
    /\ handler = "Runtime" =>
          /\ last.fault \in RuntimeKinds \cup {"Runtime"}
          /\ last.op = "raise"
    /\ (last.op \in PolicyOps /\ last.fault # "none") =>
          /\ ~IsA(last.fault, "Runtime")
          /\ handler # "Runtime"

C10_Witness ==
    /\ last.op = "raise"
    /\ last.fault = "SyscallUnknown"
    /\ handler = "Runtime"

\* The other case of C10: a policy call's Sanity fault, caught as the base.
C10_WitnessPolicyFault ==
    /\ last.op \in PolicyOps
    /\ last.fault = "Sanity"
    /\ handler = "SimulatorException"

\* The step is an update_stats call (its arguments are in last').
UpdateStep ==
    /\ last'.op = "update_stats"
    /\ handler' = "none"

\* The step is an in-range update_stats(w, r, is_valid) of an LRU instance
\* whose row r is a permutation of [0, associativity).
LRUUpdateStep(is_valid) ==
    /\ UpdateStep
    /\ policy[last'.inst] = "LRU"
    /\ last'.is_valid = is_valid
    /\ InRange(last'.inst, last'.way, last'.row)
    /\ IsPermutation(RowOf(last'.inst, last'.row), ways_of(last'.inst))

\* The position (1-based) of way w in a row that holds it.
PosOf(row, w) ==
    CHOOSE k \in 1..Len(row) : row[k] = w

\* C11: under LRU, an in-range update_stats(w, r, true) on a permutation
\* row with w at position k keeps positions 0..k-1, shifts every element
\* after k down by one and puts w last; with associativity 2, [0,1] becomes
\* [1,0] (victim 1) on a hit of way 0 and [1,0] becomes [0,1] (victim 0) on
\* a hit of way 1.
C11_LRUHitMovesToBack ==
    [][LRUUpdateStep(TRUE) =>
         LET i == last'.inst
             w == last'.way
             pre == RowOf(i, last'.row)
             post == stats'[i][last'.row + 1]
             n == Len(pre)
             k == PosOf(pre, w)
             victim == LRU_select_way_to_evict(stats'[i], last'.row)
         IN  /\ last'.fault = "none"
             /\ Len(post) = n
             /\ \A j \in 1..(k - 1) : post[j] = pre[j]
             /\ \A j \in (k + 1)..n : post[j - 1] = pre[j]
             /\ post[n] = w
             /\ (pre = <<0, 1>> /\ w = 0) =>
                    (post = <<1, 0>> /\ victim = [way |-> 1, fault |-> "none"])
             /\ (pre = <<1, 0>> /\ w = 1) =>
                    (post = <<0, 1>> /\ victim = [way |-> 0, fault |-> "none"])
      ]_vars

C11_Witness ==
    /\ last.op = "update_stats"
    /\ policy[last.inst] = "LRU"
    /\ in_range_only[last.inst]
    /\ last.is_valid
    /\ last.way = 0
    /\ ways_of(last.inst) = 3
    /\ RowOf(last.inst, last.row) = <<2, 1, 0>>

\* C12: under LRU, an in-range update_stats(w, r, false) on a permutation
\* row with w at position k puts w at position 0, shifts every element
\* before k up by one and keeps the positions after k; the victim of r
\* right afterwards is w.
C12_LRUInvalidateMovesToFront ==
    [][LRUUpdateStep(FALSE) =>
         LET i == last'.inst
             w == last'.way
             pre == RowOf(i, last'.row)
             post == stats'[i][last'.row + 1]
             n == Len(pre)
             k == PosOf(pre, w)
         IN  /\ last'.fault = "none"
             /\ Len(post) = n
             /\ post[1] = w
             /\ \A j \in 1..(k - 1) : post[j + 1] = pre[j]
             /\ \A j \in (k + 1)..n : post[j] = pre[j]
             /\ LRU_select_way_to_evict(stats'[i], last'.row) =
                    [way |-> w, fault |-> "none"]
      ]_vars

C12_Witness ==
    /\ last.op = "update_stats"
    /\ policy[last.inst] = "LRU"
    /\ in_range_only[last.inst]
    /\ ~last.is_valid
    /\ last.way = 1
    /\ ways_of(last.inst) = 3
    /\ RowOf(last.inst, last.row) = <<1, 2, 0>>

\* The reference recency list: a hit removes the way and appends it at the
\* back, an invalidation removes it and inserts it at the front.
RefHit(row, w) ==
    Append(SelectSeq(row, LAMBDA x : x # w), w)

RefInvalidate(row, w) ==
    <<w>> \o SelectSeq(row, LAMBDA x : x # w)

MinOf(S) ==
    CHOOSE x \in S : \A y \in S : x <= y

\* What the victim and the last position of every row of an LRU instance
\* are, in terms of the calls the row has seen: the ways whose latest call
\* was an invalidation, the ways never touched, the ways whose latest call
\* was a hit.
RecencyRule ==
    \A i \in Insts :
        (policy[i] = "LRU" /\ in_range_only[i]) =>
            \A r \in 0..(set_count_of(i) - 1) :
                LET log == events[i][r + 1]
                    inv == SelectSeq(log, LAMBDA e : ~e.is_valid)
                    hit == SelectSeq(log, LAMBDA e : e.is_valid)
                    untouched ==
                        {w \in 0..(ways_of(i) - 1) :
                            \A k \in 1..Len(log) : log[k].way # w}
                    row == RowOf(i, r)
                    victim == LRU_select_way_to_evict(stats[i], r)
                IN  /\ victim.fault = "none"
                    /\ victim.way =
                         IF inv # <<>> THEN inv[Len(inv)].way
                         ELSE IF untouched # {} THEN MinOf(untouched)
                         ELSE hit[1].way
                    /\ hit # <<>> => row[Len(row)] = hit[Len(hit)].way

\* C13: under LRU, after in-range update_stats calls only, every row equals
\* the reference recency list; its victim is the most recently invalidated
\* way among those not hit since, else the lowest-index way never touched,
\* else the way whose latest hit is the oldest; and its last position holds
\* the most recently hit way among those not invalidated since.
C13_LRURefinesRecencyList ==
    [][
        /\ (LRUUpdateStep(TRUE) /\ in_range_only[last'.inst]) =>
             stats'[last'.inst][last'.row + 1] =
                 RefHit(RowOf(last'.inst, last'.row), last'.way)
        /\ (LRUUpdateStep(FALSE) /\ in_range_only[last'.inst]) =>
             stats'[last'.inst][last'.row + 1] =
                 RefInvalidate(RowOf(last'.inst, last'.row), last'.way)
        /\ RecencyRule'
      ]_vars

C13_Witness ==
    /\ policy[1] = "LRU"
    /\ in_range_only[1]
    /\ ways_of(1) = 3
    /\ events[1][1] = <<[way |-> 1, is_valid |-> TRUE],
                        [way |-> 0, is_valid |-> TRUE],
                        [way |-> 2, is_valid |-> FALSE]>>
    /\ last.op = "select_way_to_evict"
    /\ last.row = 0
    /\ last.result = 2

\* The lowest way index among the ways of a row whose counter is minimal.
LowestMinimal(row) ==
    CHOOSE w \in 0..(Len(row) - 1) :
        /\ \A v \in 0..(Len(row) - 1) : row[w + 1] <= row[v + 1]
        /\ \A v \in 0..(w - 1) : row[v + 1] > row[w + 1]

LFUVictimIsLowestMinimal ==
    \A i \in Insts :
        policy[i] = "LFU" =>
            /\ \A r \in 0..(set_count_of(i) - 1) :
                  LFU_select_way_to_evict(stats[i], r) =
                      [way |-> LowestMinimal(RowOf(i, r)), fault |-> "none"]
            /\ (/\ last.op = "select_way_to_evict"
                /\ last.inst = i
                /\ last.row < set_count_of(i))
                    => /\ last.fault = "none"
                       /\ last.result = LowestMinimal(RowOf(i, last.row))

\* The step is an in-range update_stats(way, r, is_valid) of an LFU
\* instance whose row r is `pre`.
LFUUpdateStepOn(pre, way, is_valid) ==
    /\ UpdateStep
    /\ policy[last'.inst] = "LFU"
    /\ InRange(last'.inst, last'.way, last'.row)
    /\ last'.way = way
    /\ last'.is_valid = is_valid
    /\ RowOf(last'.inst, last'.row) = pre

\* C14: under LFU, in every reachable state, the victim of a row is the
\* lowest way index among the ways whose counter is minimal in the row;
\* with associativity 2, counters [0,0] give victim 0, update_stats(0,0,true)
\* makes them [1,0] with victim 1, and update_stats(1,0,true) then makes
\* them [1,1] with victim 0.
C14_LFUVictimLowestCounter ==
    [][
        /\ LFUVictimIsLowestMinimal'
        /\ LFUUpdateStepOn(<<0, 0>>, 0, TRUE) =>
             /\ LFU_select_way_to_evict(stats[last'.inst], last'.row).way = 0
             /\ stats'[last'.inst][last'.row + 1] = <<1, 0>>
             /\ LFU_select_way_to_evict(stats'[last'.inst], last'.row).way = 1
        /\ LFUUpdateStepOn(<<1, 0>>, 1, TRUE) =>
             /\ stats'[last'.inst][last'.row + 1] = <<1, 1>>
             /\ LFU_select_way_to_evict(stats'[last'.inst], last'.row).way = 0
      ]_vars

C14_Witness ==
    /\ last.op = "select_way_to_evict"
    /\ policy[last.inst] = "LFU"
    /\ last.row < set_count_of(last.inst)
    /\ RowOf(last.inst, last.row) = <<2, 1, 1>>
    /\ last.result = 1

\* A counter of an LFU instance used in range only is 0 only if its way got
\* no update_stats(.., true) since construction or its last invalidation.
ZeroMeansUnused ==
    \A i \in Insts :
        (policy[i] = "LFU" /\ in_range_only[i]) =>
            \A r \in 0..(set_count_of(i) - 1) :
                \A w \in 0..(ways_of(i) - 1) :
                    RowOf(i, r)[w + 1] = 0 => <<r, w>> \notin hit_since_reset[i]

\* C15: under LFU with counters of a fixed width, in every state reached
\* by in-range update_stats calls a counter is 0 only if its way got no
\* update_stats(.., true) since construction or since its last
\* update_stats(.., false), and update_stats(way, row, true) never makes the
\* counter smaller: it increases it by exactly one.
C15_LFUCountersOnlyGrow ==
    [][
        /\ ZeroMeansUnused'
        /\ (/\ UpdateStep
            /\ policy[last'.inst] = "LFU"
            /\ in_range_only'[last'.inst]
            /\ last'.is_valid) =>
              LET before == RowOf(last'.inst, last'.row)[last'.way + 1]
                  after == stats'[last'.inst][last'.row + 1][last'.way + 1]
              IN  after >= before /\ after = before + 1
      ]_vars

\* The step constructs a Random policy while another one exists already.
FurtherRandConstruction ==
    /\ last'.op = "get_policy_instance"
    /\ handler' = "none"
    /\ policy[last'.inst] = "NONE"
    /\ policy'[last'.inst] = "RAND"
    /\ \E j \in Insts \ {last'.inst} : policy[j] = "RAND"

\* C16 as stated: the generator is seeded exactly once, at the first
\* construction of a Random policy in the process; constructing a further
\* Random policy later does not reseed or reset the generator.
C16_SeededOnce ==
    [][FurtherRandConstruction => rand_state' = rand_state]_vars

\* C16 amended: the generator is seeded to the fixed constant at every
\* construction of a Random policy; constructing a further Random policy
\* resets the generator to that constant, whatever was drawn before.
C16_SeededAtEveryConstruction ==
    [][(/\ last'.op = "get_policy_instance"
        /\ handler' = "none"
        /\ policy[last'.inst] = "NONE"
        /\ policy'[last'.inst] = "RAND") => rand_state' = SRAND_SEED]_vars

C16_Witness ==
    /\ last.op = "get_policy_instance"
    /\ last.inst = 2
    /\ policy[1] = "RAND"
    /\ policy[2] = "RAND"
    /\ Len(drawn[1]) = 2
    /\ rand_state = SRAND_SEED

\* Two undisturbed Random instances of one associativity return the same
\* ways, whether or not update_stats was called on either of them.
ReplayIgnoresUpdateStats ==
    \A i \in Insts, j \in Insts :
        (/\ policy[i] = "RAND" /\ undisturbed[i]
         /\ policy[j] = "RAND" /\ undisturbed[j]
         /\ associativity[i] = associativity[j])
            => \A k \in 1..Len(drawn[i]) :
                   k <= Len(drawn[j]) => drawn[i][k] = drawn[j][k]

\* C17: under Random, update_stats is a no-op for every argument triple: it
\* changes neither the instance nor the generator, so the ways
\* select_way_to_evict returns are the same with and without interleaved
\* update_stats calls, and they do not depend on the row argument.
C17_RandUpdateStatsIsNop ==
    [][
        /\ (UpdateStep /\ policy[last'.inst] = "RAND") =>
             UNCHANGED <<config, policy, associativity, stats, rand_state,
                         drawn, undisturbed, gen_owner>>
        /\ ReplayIgnoresUpdateStats'
        /\ (SelectStep /\ policy[last'.inst] = "RAND") =>
             \A row \in 0..MaxSets :
                 RAND_select_way(rand_state', associativity[last'.inst], row)
                     = last'.result
      ]_vars

C17_Witness ==
    /\ policy[1] = "RAND" /\ undisturbed[1] /\ touched[1]
    /\ policy[2] = "RAND" /\ undisturbed[2] /\ ~touched[2]
    /\ associativity[1] = 2
    /\ associativity[2] = 2
    /\ Len(drawn[1]) = MaxDraws
    /\ Len(drawn[2]) = MaxDraws
    /\ last.op = "update_stats"
    /\ last.inst = 1
    /\ ~InRange(1, last.way, last.row)

\* C18: under every policy with associativity > 0, in every reachable state
\* (also after calls that raised), select_way_to_evict on a row below
\* set_count raises nothing and returns a way below the associativity.
\* Violated: an LRU update_stats with way >= associativity (C1) leaves an
\* out-of-range way index in the row, which select_way_to_evict returns.
C18_VictimInRange ==
    (/\ last.op = "select_way_to_evict"
     /\ ways_of(last.inst) > 0
     /\ last.row < set_count_of(last.inst))
        => /\ last.fault = "none"
           /\ last.result \in 0..(ways_of(last.inst) - 1)

\* C19: under LRU and LFU an update_stats call that raises leaves the
\* statistics as they were before the call.
\* Violated: the LRU pass has already exchanged entries of the row when the
\* out-of-range access is detected (C1).
C19_FailedUpdateKeepsStats ==
    [][
        (/\ UpdateStep
         /\ policy[last'.inst] \in {"LRU", "LFU"}
         /\ last'.fault # "none")
            => stats' = stats
      ]_vars

\* The step is an update_stats(w, r, is_valid) of an LRU or LFU instance
\* with r < set_count and w < associativity.
InRangeUpdateStep ==
    /\ UpdateStep
    /\ policy[last'.inst] \in {"LRU", "LFU"}
    /\ InRange(last'.inst, last'.way, last'.row)

\* C20: under LRU and LFU, an in-range update_stats(w, r, is_valid) changes
\* only row r: every other row (and every other instance) is as before, and
\* under LFU the counter of every other way of row r is as before too.
C20_UpdateTouchesOneRow ==
    [][
        InRangeUpdateStep =>
            LET i == last'.inst
                r == last'.row
                w == last'.way
            IN  /\ \A j \in Insts \ {i} : stats'[j] = stats[j]
                /\ Len(stats'[i]) = Len(stats[i])
                /\ \A q \in 0..(set_count_of(i) - 1) :
                       q # r => stats'[i][q + 1] = stats[i][q + 1]
                /\ policy[i] = "LFU" =>
                       /\ Len(stats'[i][r + 1]) = Len(stats[i][r + 1])
                       /\ \A v \in 0..(ways_of(i) - 1) :
                              v # w => stats'[i][r + 1][v + 1]
                                           = stats[i][r + 1][v + 1]
      ]_vars

C20_Witness ==
    /\ policy[1] = "LFU"
    /\ set_count_of(1) = 2
    /\ ways_of(1) = 2
    /\ last.op = "update_stats"
    /\ last.fault = "none"
    /\ last.row = 1
    /\ last.way = 0
    /\ last.is_valid
    /\ stats[1][1] = <<2, 1>>
    /\ stats[1][2] = <<1, 2>>

\* The first n ways a Random instance of the given associativity returns
\* when no other instance constructs or draws in between: n successive
\* std::rand() draws starting from the generator state `state`.
RECURSIVE LoneDraws(_, _, _)
LoneDraws(state, assoc, n) ==
    IF n = 0 THEN <<>>
    ELSE <<RAND_select_way(rand_next(state), assoc, 0)>>
             \o LoneDraws(rand_next(state), assoc, n - 1)

\* C21: with two Random instances live, the ways one instance returns are
\* the same under every interleaving with the other instance's construction
\* and select_way_to_evict calls, so they are the ways it returns when it
\* runs alone from its seeded generator.
\* Violated: both instances draw from the one std::rand generator, and the
\* constructor of either reseeds it (C16).
C21_RandInstancesIndependent ==
    \A i \in Insts, j \in Insts :
        (/\ i # j
         /\ policy[i] = "RAND"
         /\ policy[j] = "RAND")
            => drawn[i] = LoneDraws(SRAND_SEED, associativity[i],
                                    Len(drawn[i]))

====
